---- MODULE Spec2Model ----
(***************************************************************************)
(* Conway's Game of Life component: src/src/game-of-life.tsx, lines 1-391  *)
(* (from line 393 on the file repeats an earlier revision of the           *)
(* component, without the responsive sizing; it is not modelled).          *)
(*                                                                         *)
(* The component is a React function component ("use client", line 1:      *)
(* React 18 or later).  Its state is the six useState cells and the        *)
(* intervalRef.  Event handlers are closures created by a render: they     *)
(* read the values that render saw (variable view), while a functional     *)
(* updater setGrid(g => ...) is applied to the latest state.  Updates made *)
(* in a discrete event (mousedown, mouseup, click, resize) are rendered    *)
(* and their effects flushed before the next event is handled; updates     *)
(* made in a timer callback or a continuous event (mouseenter, mouseleave, *)
(* slider move) are rendered by a later task (action Render).              *)
(*                                                                         *)
(* A grid is a sequence of rows, a row a sequence of BOOLEAN.  The code's  *)
(* coordinates are 0-based: cell (row, col) is grid[row + 1][col + 1].     *)
(***************************************************************************)
EXTENDS Integers, Sequences, FiniteSets, TLC

VARIABLES
  window,      \* <<innerWidth, innerHeight>> of the browser window
  grid,        \* useState grid (line 11), latest value
  isRunning,   \* useState isRunning (line 12)
  generation,  \* useState generation (line 13)
  speed,       \* useState speed[0] (line 14)
  isDragging,  \* useState isDragging (line 15)
  dragMode,    \* useState dragMode (line 16)
  view,        \* the state the last render saw: what the handlers close over
  timers,      \* the live setInterval timers: a set of [id, ms, left], left
               \* the time in ms until the timer fires next
  intervalRef, \* intervalRef.current (line 18): 0 is undefined, else a timer id
  call,        \* the pure-function harness: one call and its result
  pressed,     \* history: the value, before the toggle, of the cell the drag
               \* in progress was started on ("none" when no drag)
  resized,     \* history: a resize was handled and no run-toggle since
  ticks        \* history: the ticks applied since the grid was last replaced
               \* (mount, clear, resize)

vars == <<window, grid, isRunning, generation, speed, isDragging, dragMode,
          view, timers, intervalRef, call, pressed, resized, ticks>>

----------------------------------------------------------------------------
(* Bounds of the model *)

\* Ticks are applied while generation < MaxGen.
MaxGen == 2
\* The pure functions are applied to every rectangular grid of at most
\* MaxCells cells.
MaxCells == 9

\* The blinkers nextGeneration is applied to lie in grids of at most MaxSide
\* rows and MaxSide columns.
MaxSide == 5

\* The cells (<<row, col>>, 0-based) pointer events are drawn from: the
\* top-left corner of the grid, and the last cell of the first row of the
\* larger grid, which the smaller grid does not have.
PointerCells == { <<0, 0>>, <<0, 1>>, <<1, 0>>, <<0, 15>> }
\* The window at startup and the window sizes a resize draws from:
\* <<innerWidth, innerHeight>>.
InitialWindow == <<320, 480>>
Viewports == { <<320, 480>>, <<375, 900>> }
\* The window sizes getGridDimensions and initializeGrid are applied to on
\* their own: both sides of every breakpoint and of every limit.
Widths == { 0, 320, 767, 768, 1023, 1024, 1920, 4000 }
Heights == { 0, 480, 866, 867, 1000, 1700, 2400, 5000 }
\* The values of rows and of cols the body of initializeGrid is applied to.
DimensionValues == { -1, 0, 1, 8, 100, 101 }
\* The values the slider's handler is applied to on its own: positions of
\* the slider and values beyond its ends.
SpeedRequests == { 0, 50, 100, 1100, 2000, 2050, 2100, 2500 }
\* The positions of the speed slider the model draws from (min 100, max 2000,
\* step 100: lines 291-293).
SliderValues == { 2000 }
\* The positions of the slider drawn from where time is kept: periods of 100
\* and 1100 ms, one shorter and one longer than the initial 500 ms.
ClockSliderValues == { 2000, 1000 }

----------------------------------------------------------------------------
(* Program constants *)

CELL_SIZE == 20

\* step of the slider (line 293): every period is a multiple of it (the
\* initial 500 of line 14 too), and the model's time advances by it.
SliderStep == 100

Max(a, b) == IF a >= b THEN a ELSE b
Min(a, b) == IF a <= b THEN a ELSE b

----------------------------------------------------------------------------
(* Grid helpers: JavaScript array reads and copy-on-write writes *)

\* grid.length
NumRows(g) == Len(g)
\* grid[0].length
NumCols(g) == Len(g[1])

\* grid[row][col], 0-based, row a row of g: beyond the end of the row the
\* read gives undefined, which every use takes as a dead cell.
Cell(g, row, col) ==
  IF col < Len(g[row + 1]) THEN g[row + 1][col + 1] ELSE FALSE

\* newGrid = [...g]; newGrid[row] = [...newGrid[row]]; newGrid[row][col] = v,
\* row a row of g: a write beyond the end of the row makes the row col + 1
\* long, the cells in between empty (read as dead).
WriteCell(g, row, col, v) ==
  IF col < Len(g[row + 1]) THEN [g EXCEPT ![row + 1][col + 1] = v]
  ELSE LET old == g[row + 1]
       IN [g EXCEPT ![row + 1] =
             [j \in 1..(col + 1) |->
                IF j <= Len(old) THEN old[j] ELSE (j = col + 1 /\ v)]]

\* Array(rows).fill(null).map(() => Array(cols).fill(false))
DeadGrid(rows, cols) == [i \in 1..rows |-> [j \in 1..cols |-> FALSE]]

----------------------------------------------------------------------------
(* getGridDimensions (lines 22-53) and initializeGrid (lines 56-69) *)

isMobile(w) == w < 768
isTablet(w) == w >= 768 /\ w < 1024
isDesktop(w) == w >= 1024

\* containerHeight and containerWidth are computed in tenths of a pixel, so
\* that windowHeight * 0.3 and windowWidth * 0.5 stay integers:
\* Math.floor(x / CELL_SIZE) = (10 x) \div (10 CELL_SIZE) for x >= 0.
containerHeight10(w, h) ==
  IF isMobile(w) THEN Max(3 * h, 2500)
  ELSE IF isTablet(w) THEN Max(10 * (h - 200), 4000)
  ELSE Max(10 * (h - 200), 5000)

containerWidth10(w, h) ==
  IF isMobile(w) THEN Max(10 * (w - 40), 3000)
  ELSE IF isTablet(w) THEN Max(5 * w, 4000)
  ELSE Max(10 * (h - 200), 5000)

\* Faulty variant: the row limit of 40 applied to every device class.
getGridDimensionsNoMobileLimit(w, h) ==
  [ rows |-> Max(Min(containerHeight10(w, h) \div (10 * CELL_SIZE), 40), 8),
    cols |-> Max(Min(containerWidth10(w, h) \div (10 * CELL_SIZE), 40), 10) ]

\* Faulty variant: no upper limit on rows and cols.
getGridDimensionsUnlimited(w, h) ==
  [ rows |-> Max(containerHeight10(w, h) \div (10 * CELL_SIZE), 8),
    cols |-> Max(containerWidth10(w, h) \div (10 * CELL_SIZE), 10) ]

getGridDimensions(w, h) ==
  [ rows |-> Max(Min(containerHeight10(w, h) \div (10 * CELL_SIZE),
                     IF isMobile(w) THEN 25 ELSE 40), 8),
    cols |-> Max(Min(containerWidth10(w, h) \div (10 * CELL_SIZE), 40), 10) ]

\* Faulty variant: initializeGrid without the test of lines 59-63.
initializeGridOfUnchecked(rows, cols) == DeadGrid(rows, cols)

\* Lines 59-68, rows and cols being what getGridDimensions returned.
initializeGridOf(rows, cols) ==
  IF rows <= 0 \/ cols <= 0 \/ rows > 100 \/ cols > 100
  THEN DeadGrid(15, 20)
  ELSE DeadGrid(rows, cols)

initializeGrid(win) ==
  LET d == getGridDimensions(win[1], win[2])
  IN initializeGridOf(d.rows, d.cols)

----------------------------------------------------------------------------
(* countNeighbors (lines 89-110) *)

directions == << <<-1, -1>>, <<-1, 0>>, <<-1, 1>>, <<0, -1>>,
                 <<0, 1>>, <<1, -1>>, <<1, 0>>, <<1, 1>> >>

\* The bounds test of line 105.
inGrid(g, newRow, newCol) ==
  newRow >= 0 /\ newRow < NumRows(g) /\ newCol >= 0 /\ newCol < NumCols(g)

\* Faulty variant: positions beyond an edge wrap around to the opposite edge.
liveAtWrap(g, newRow, newCol) ==
  Cell(g, newRow % NumRows(g), newCol % NumCols(g))

\* Lines 105-106: a neighbour position counts when it is in the grid and live.
liveAt(g, newRow, newCol) ==
  inGrid(g, newRow, newCol) /\ Cell(g, newRow, newCol)

\* The for loop of lines 102-108 from direction i on, count so far given.
RECURSIVE countFrom(_, _, _, _, _)
countFrom(g, row, col, i, count) ==
  IF i > Len(directions) THEN count
  ELSE LET newRow == row + directions[i][1]
           newCol == col + directions[i][2]
       IN countFrom(g, row, col, i + 1,
                    IF liveAt(g, newRow, newCol) THEN count + 1 ELSE count)

countNeighbors(g, row, col) == countFrom(g, row, col, 1, 0)

----------------------------------------------------------------------------
(* nextGeneration (lines 113-133) *)

\* Faulty variant: newGrid = currentGrid, the rows shared with the argument.
aliasRows(currentGrid) ==
  [currentGrid |-> currentGrid, newGrid |-> currentGrid, shared |-> TRUE]

\* Line 115, currentGrid.map((row) => [...row]): newGrid's rows are fresh
\* arrays; shared tells whether a write to newGrid is a write to currentGrid.
copyRows(currentGrid) ==
  [currentGrid |-> currentGrid, newGrid |-> currentGrid, shared |-> FALSE]

\* Faulty variant: a live cell survives with 3 neighbours only.
ruleSurviveOn3(isAlive, neighbors) == neighbors = 3

\* Lines 122-126: the rule, from the cell and its neighbour count.
rule(isAlive, neighbors) ==
  IF isAlive THEN neighbors = 2 \/ neighbors = 3 ELSE neighbors = 3

\* Faulty variant: the neighbours are counted in the grid being written.
cellStepInPlace(m, row, col) ==
  LET neighbors == countNeighbors(m.newGrid, row, col)
      alive == Cell(m.currentGrid, row, col)
      written == WriteCell(m.newGrid, row, col, rule(alive, neighbors))
  IN [ currentGrid |-> IF m.shared THEN written ELSE m.currentGrid,
       newGrid |-> written,
       shared |-> m.shared ]

\* Lines 119-126: the body of the loops for one cell, m the pair of arrays.
cellStep(m, row, col) ==
  LET neighbors == countNeighbors(m.currentGrid, row, col)
      alive == Cell(m.currentGrid, row, col)
      written == WriteCell(m.newGrid, row, col, rule(alive, neighbors))
  IN [ currentGrid |-> IF m.shared THEN written ELSE m.currentGrid,
       newGrid |-> written,
       shared |-> m.shared ]

\* Line 118: the inner loop of one row, from column col on.
RECURSIVE colLoop(_, _, _)
colLoop(m, row, col) ==
  IF col < NumCols(m.currentGrid)
  THEN colLoop(cellStep(m, row, col), row, col + 1)
  ELSE m

\* Line 117: the outer loop, from row on.
RECURSIVE rowLoop(_, _)
rowLoop(m, row) ==
  IF row < NumRows(m.currentGrid)
  THEN rowLoop(colLoop(m, row, 0), row + 1)
  ELSE m

\* The arrays when nextGeneration returns.
nextGenerationRun(currentGrid) == rowLoop(copyRows(currentGrid), 0)

nextGeneration(currentGrid) == nextGenerationRun(currentGrid).newGrid

\* getPopulation (lines 136-138): grid.flat().filter((cell) => cell).length
getPopulation(g) ==
  Cardinality({ p \in (1..Len(g)) \X (1..(IF Len(g) = 0 THEN 0 ELSE Len(g[1]))) :
                g[p[1]][p[2]] })

----------------------------------------------------------------------------
(* The component's state and what a render captures *)

\* The six useState cells, latest values.  speed.fresh tells that the speed
\* array was replaced (setSpeed([...]), line 290) since the last render: the
\* effect's dependency on speed (line 161) is compared by identity.
Current ==
  [ grid |-> grid, isRunning |-> isRunning, generation |-> generation,
    speed |-> speed, isDragging |-> isDragging, dragMode |-> dragMode ]

Set(next) ==
  /\ grid' = next.grid
  /\ isRunning' = next.isRunning
  /\ generation' = next.generation
  /\ speed' = next.speed
  /\ isDragging' = next.isDragging
  /\ dragMode' = next.dragMode

----------------------------------------------------------------------------
(* The game loop effect (lines 141-161) *)

clearInterval(ts, id) == { t \in ts : t.id # id }

\* setInterval returns an id no live timer has (ids are positive).
setIntervalId(ts) ==
  CHOOSE n \in 1..(Cardinality(ts) + 1) :
    /\ \A t \in ts : t.id # n
    /\ \A k \in 1..(n - 1) : \E t \in ts : t.id = k

\* Faulty variant: the effect returns no cleanup.
effectCleanupNone(ts, ref) == ts

\* Lines 156-160: the cleanup of the previous run of the effect.
effectCleanup(ts, ref) == IF ref # 0 THEN clearInterval(ts, ref) ELSE ts

\* Lines 142-154: the effect's body.  setInterval(f, ms) fires first ms after
\* the call.
effectBody(ts, ref, running, ms) ==
  IF running
  THEN LET id == setIntervalId(ts)
       IN [timers |-> ts \cup {[id |-> id, ms |-> ms, left |-> ms]},
           intervalRef |-> id]
  ELSE [timers |-> IF ref # 0 THEN clearInterval(ts, ref) ELSE ts,
        intervalRef |-> ref]

\* Faulty variant: the effect leaves the timer alone when isRunning is false.
gameLoopEffectKeepTimer(ts, ref, running, ms) ==
  IF running THEN effectBody(effectCleanup(ts, ref), ref, running, ms)
  ELSE [timers |-> ts, intervalRef |-> ref]

\* A re-run of the effect: cleanup, then body.
gameLoopEffect(ts, ref, running, ms) ==
  effectBody(effectCleanup(ts, ref), ref, running, ms)

\* Faulty variant: speed is not among the effect's dependencies.
depsChangedRunningOnly(prev, next) == next.isRunning # prev.isRunning

\* The dependency test of line 161 between the last render and this one.
depsChanged(prev, next) ==
  next.isRunning # prev.isRunning \/ next.speed.fresh

\* A render of state next and the effects it triggers; the render has seen
\* the speed array.
Commit(next) ==
  /\ view' = [next EXCEPT !.speed.fresh = FALSE]
  /\ IF depsChanged(view, next)
     THEN LET e == gameLoopEffect(timers, intervalRef,
                                  next.isRunning, next.speed.ms)
          IN timers' = e.timers /\ intervalRef' = e.intervalRef
     ELSE UNCHANGED <<timers, intervalRef>>

\* An update made in a discrete event: rendered, and its effects run, before
\* any other event is handled.
Discrete(next) ==
  /\ Set([next EXCEPT !.speed.fresh = FALSE])
  /\ Commit(next)

\* An update made in a timer callback or a continuous event: rendered later.
Deferred(next) ==
  /\ Set(next)
  /\ UNCHANGED <<view, timers, intervalRef>>

----------------------------------------------------------------------------
(* The handlers: each maps the latest state cur to the state after its    *)
(* updates; isRunning, isDragging, dragMode and grid read outside an       *)
(* updater are the closure's values (view).                                *)

\* toggleCell (lines 164-171): the updater of setGrid.
toggleCell(g, row, col) == WriteCell(g, row, col, ~Cell(g, row, col))

\* Line 180: the closure's grid decides the drag mode.
modeFor(row, col) == IF Cell(view.grid, row, col) THEN "erase" ELSE "paint"

\* Faulty variant: the handler without its isRunning test (line 176).
handleCellInteractionUngated(cur, row, col, isClick) ==
  IF isClick
  THEN [cur EXCEPT !.grid = toggleCell(@, row, col),
                   !.dragMode = modeFor(row, col)]
  ELSE IF view.isDragging
  THEN [cur EXCEPT !.grid = WriteCell(@, row, col, view.dragMode = "paint")]
  ELSE cur

\* handleCellInteraction (lines 174-191)
handleCellInteraction(cur, row, col, isClick) ==
  IF view.isRunning THEN cur
  ELSE IF isClick
  THEN [cur EXCEPT !.grid = toggleCell(@, row, col),
                   !.dragMode = modeFor(row, col)]
  ELSE IF view.isDragging
  THEN [cur EXCEPT !.grid = WriteCell(@, row, col, view.dragMode = "paint")]
  ELSE cur

\* handleMouseDown (lines 194-201)
handleMouseDown(cur, row, col) ==
  IF view.isRunning THEN cur
  ELSE handleCellInteraction([cur EXCEPT !.isDragging = TRUE], row, col, TRUE)

\* Faulty variant: a cell entered during a drag is toggled instead of set.
handleMouseEnterToggle(cur, row, col) ==
  IF view.isRunning \/ ~view.isDragging THEN cur
  ELSE [cur EXCEPT !.grid = toggleCell(@, row, col)]

\* handleMouseEnter (lines 203-208)
handleMouseEnter(cur, row, col) == handleCellInteraction(cur, row, col, FALSE)

\* handleMouseUp (lines 210-212)
handleMouseUp(cur) == [cur EXCEPT !.isDragging = FALSE]

\* Faulty variant: clearGrid without setGeneration(0).
clearGridKeepGeneration(cur, win) ==
  [cur EXCEPT !.grid = initializeGrid(win), !.isRunning = FALSE]

\* Faulty variant: clearGrid builds the default grid of 15 x 20.
clearGridDefault(cur, win) ==
  [cur EXCEPT !.grid = DeadGrid(15, 20), !.generation = 0,
              !.isRunning = FALSE]

\* Faulty variant: clearGrid without setIsRunning(false).
clearGridKeepRunning(cur, win) ==
  [cur EXCEPT !.grid = initializeGrid(win), !.generation = 0]

\* Faulty variant: handleResize without setIsRunning(false).
handleResizeKeepRunning(cur, win) ==
  [cur EXCEPT !.grid = initializeGrid(win), !.generation = 0]

\* clearGrid (lines 215-219) and handleResize (lines 78-82), win the window
\* at the time of the call.
clearGrid(cur, win) ==
  [cur EXCEPT !.grid = initializeGrid(win), !.generation = 0,
              !.isRunning = FALSE]

handleResize(cur, win) ==
  [cur EXCEPT !.grid = initializeGrid(win), !.generation = 0,
              !.isRunning = FALSE]

\* toggleRunning (lines 222-224)
toggleRunning(cur) == [cur EXCEPT !.isRunning = ~view.isRunning]

\* Faulty variant: the generation updater applied twice for one tick.
tickTwice(cur) ==
  [cur EXCEPT !.grid = nextGeneration(@), !.generation = @ + 2]

\* The interval callback (lines 143-148).
tick(cur) ==
  [cur EXCEPT !.grid = nextGeneration(@), !.generation = @ + 1]

\* Slider onValueChange (line 290)
onValueChange(cur, value) ==
  [cur EXCEPT !.speed = [ms |-> 2100 - value, fresh |-> TRUE]]

----------------------------------------------------------------------------
(* Events *)

\* Faulty variant: cells of a grid rendered earlier still receive events.
RenderedCellsStale == IF view.grid = <<>> THEN {} ELSE PointerCells

\* The cells the rendered grid offers to the pointer (lines 356-374), within
\* the model's pointer window.
RenderedCells ==
  IF view.grid = <<>> THEN {}
  ELSE { c \in PointerCells :
           c[1] < NumRows(view.grid) /\ c[2] < NumCols(view.grid) }

idleCall == [op |-> "none"]

Init ==
  /\ window = InitialWindow
  /\ grid = <<>>
  /\ isRunning = FALSE
  /\ generation = 0
  /\ speed = [ms |-> 500, fresh |-> FALSE]
  /\ isDragging = FALSE
  /\ dragMode = "paint"
  /\ view = [ grid |-> <<>>, isRunning |-> FALSE, generation |-> 0,
              speed |-> [ms |-> 500, fresh |-> FALSE],
              isDragging |-> FALSE, dragMode |-> "paint" ]
  /\ timers = {}
  /\ intervalRef = 0
  /\ call = idleCall
  /\ pressed = "none"
  /\ resized = FALSE
  /\ ticks = 0

\* The mount effects (lines 72-74, and the first run of the other effects):
\* until then the component renders null (line 228).
Mount ==
  /\ grid = <<>>
  /\ Discrete([Current EXCEPT !.grid = initializeGrid(window)])
  /\ ticks' = 0
  /\ UNCHANGED <<window, call, pressed, resized>>

MouseDown(row, col) ==
  /\ <<row, col>> \in RenderedCells
  /\ IF handleMouseDown(Current, row, col) = Current
     THEN UNCHANGED vars
     ELSE /\ Discrete(handleMouseDown(Current, row, col))
          /\ pressed' = Cell(grid, row, col)
          /\ UNCHANGED <<window, call, resized, ticks>>

MouseEnter(row, col) ==
  /\ <<row, col>> \in RenderedCells
  /\ Deferred(handleMouseEnter(Current, row, col))
  /\ UNCHANGED <<window, call, pressed, resized, ticks>>

\* onMouseUp of the grid surface (line 349)
MouseUp ==
  /\ view.grid # <<>>
  /\ Discrete(handleMouseUp(Current))
  /\ pressed' = "none"
  /\ UNCHANGED <<window, call, resized, ticks>>

\* onMouseLeave of the grid surface (line 350)
MouseLeave ==
  /\ view.grid # <<>>
  /\ Deferred(handleMouseUp(Current))
  /\ pressed' = "none"
  /\ UNCHANGED <<window, call, resized, ticks>>

\* Faulty variant: the Play/Pause button offered before the grid exists
\* (no early return at line 228).
ToggleRunningBeforeGrid ==
  /\ Discrete(toggleRunning(Current))
  /\ resized' = FALSE
  /\ UNCHANGED <<window, call, pressed, ticks>>

\* onClick of the Play/Pause button (line 252); the button is rendered once
\* the grid has rows (line 228).
ToggleRunning ==
  /\ view.grid # <<>>
  /\ Discrete(toggleRunning(Current))
  /\ resized' = FALSE
  /\ UNCHANGED <<window, call, pressed, ticks>>

\* onClick of the Clear Grid button (line 271)
ClearGrid ==
  /\ view.grid # <<>>
  /\ Discrete(clearGrid(Current, window))
  /\ ticks' = 0
  /\ UNCHANGED <<window, call, pressed, resized>>

\* The window's resize event (line 84), the window now being win.
Resize(win) ==
  /\ grid # <<>>
  /\ win # window
  /\ window' = win
  /\ Discrete(handleResize(Current, win))
  /\ resized' = TRUE
  /\ ticks' = 0
  /\ UNCHANGED <<call, pressed>>

SetSpeed(value) ==
  /\ view.grid # <<>>
  /\ Deferred(onValueChange(Current, value))
  /\ UNCHANGED <<window, call, pressed, resized, ticks>>

\* Timer t fires.
Tick(t) ==
  /\ t \in timers
  /\ generation < MaxGen
  /\ Deferred(tick(Current))
  /\ ticks' = ticks + 1
  /\ UNCHANGED <<window, call, pressed, resized>>

\* The render React scheduled for deferred updates.
Render ==
  /\ view # Current
  /\ Discrete(Current)
  /\ UNCHANGED <<window, call, pressed, resized, ticks>>

Next ==
  \/ Mount
  \/ \E c \in PointerCells : MouseDown(c[1], c[2])
  \/ \E c \in PointerCells : MouseEnter(c[1], c[2])
  \/ MouseUp
  \/ MouseLeave
  \/ ToggleRunning
  \/ ClearGrid
  \/ \E win \in Viewports : Resize(win)
  \/ \E value \in SliderValues : SetSpeed(value)
  \/ \E t \in timers : Tick(t)
  \/ Render

Spec == Init /\ [][Next]_vars

----------------------------------------------------------------------------
(* The game loop with time.  Spec leaves time out: there a live timer may  *)
(* fire at any moment and left is not kept.  SpecClock keeps it: time      *)
(* advances by SliderStep while no timer is due, and a timer fires when    *)
(* its wait is over.                                                        *)

\* SliderStep ms pass.
Elapse ==
  /\ timers # {}
  /\ \A t \in timers : t.left >= SliderStep
  /\ timers' = { [t EXCEPT !.left = @ - SliderStep] : t \in timers }
  /\ UNCHANGED <<window, grid, isRunning, generation, speed, isDragging,
                 dragMode, view, intervalRef, call, pressed, resized, ticks>>

\* Timer t fires at the end of its wait and is armed for one more period.
TickDue(t) ==
  /\ t \in timers
  /\ t.left = 0
  /\ generation < MaxGen
  /\ Set(tick(Current))
  /\ timers' = (timers \ {t}) \cup {[t EXCEPT !.left = t.ms]}
  /\ ticks' = ticks + 1
  /\ UNCHANGED <<window, view, intervalRef, call, pressed, resized>>

NextClock ==
  \/ Mount
  \/ ToggleRunning
  \/ ClearGrid
  \/ \E value \in ClockSliderValues : SetSpeed(value)
  \/ Elapse
  \/ \E t \in timers : TickDue(t)
  \/ Render

SpecClock == Init /\ [][NextClock]_vars

----------------------------------------------------------------------------
(* The pure functions applied to every small grid *)

Dims == { d \in (1..MaxCells) \X (1..MaxCells) : d[1] * d[2] <= MaxCells }

SmallGrids == UNION { [1..d[1] -> [1..d[2] -> BOOLEAN]] : d \in Dims }

InitFn ==
  /\ window = InitialWindow
  /\ grid = <<>>
  /\ isRunning = FALSE
  /\ generation = 0
  /\ speed = [ms |-> 500, fresh |-> FALSE]
  /\ isDragging = FALSE
  /\ dragMode = "paint"
  /\ view = [ grid |-> <<>>, isRunning |-> FALSE, generation |-> 0,
              speed |-> [ms |-> 500, fresh |-> FALSE],
              isDragging |-> FALSE, dragMode |-> "paint" ]
  /\ timers = {}
  /\ intervalRef = 0
  /\ pressed = "none"
  /\ resized = FALSE
  /\ ticks = 0
  /\ \E g \in SmallGrids : call = [op |-> "idle", grid |-> g]

Frame ==
  UNCHANGED <<window, grid, isRunning, generation, speed, isDragging,
              dragMode, view, timers, intervalRef, pressed, resized, ticks>>

\* nextGeneration(call.grid): input is the argument as passed, after the
\* argument when the call returns, result the value returned.
CallNextGeneration ==
  /\ call.op = "idle"
  /\ call' = [ op |-> "nextGeneration", input |-> call.grid,
               after |-> nextGenerationRun(call.grid).currentGrid,
               result |-> nextGeneration(call.grid) ]
  /\ Frame

\* countNeighbors(call.grid, row, col) for a cell of the grid
CallCountNeighbors(row, col) ==
  /\ call.op = "idle"
  /\ row < NumRows(call.grid) /\ col < NumCols(call.grid)
  /\ call' = [ op |-> "countNeighbors", input |-> call.grid,
               row |-> row, col |-> col,
               result |-> countNeighbors(call.grid, row, col) ]
  /\ Frame

\* The grid returned becomes the next argument (successive generations).
Return ==
  /\ call.op = "nextGeneration"
  /\ call' = [op |-> "idle", grid |-> call.result]
  /\ Frame

NextFn ==
  \/ CallNextGeneration
  \/ \E row \in 0..(MaxCells - 1), col \in 0..(MaxCells - 1) :
        CallCountNeighbors(row, col)
  \/ Return

SpecFn == InitFn /\ [][NextFn]_vars

----------------------------------------------------------------------------
(* nextGeneration applied, generation after generation, to every grid     *)
(* whose live cells are three horizontally adjacent cells of one row      *)

\* The grid of rows x cols cells whose live cells are exactly those of set.
GridOf(rows, cols, set) ==
  [i \in 1..rows |-> [j \in 1..cols |-> <<i - 1, j - 1>> \in set]]

HorizontalBlinker(rows, cols, row, col) ==
  GridOf(rows, cols, { <<row, col - 1>>, <<row, col>>, <<row, col + 1>> })

VerticalBlinker(rows, cols, row, col) ==
  GridOf(rows, cols, { <<row - 1, col>>, <<row, col>>, <<row + 1, col>> })

InitBlinker ==
  /\ window = InitialWindow
  /\ grid = <<>>
  /\ isRunning = FALSE
  /\ generation = 0
  /\ speed = [ms |-> 500, fresh |-> FALSE]
  /\ isDragging = FALSE
  /\ dragMode = "paint"
  /\ view = [ grid |-> <<>>, isRunning |-> FALSE, generation |-> 0,
              speed |-> [ms |-> 500, fresh |-> FALSE],
              isDragging |-> FALSE, dragMode |-> "paint" ]
  /\ timers = {}
  /\ intervalRef = 0
  /\ pressed = "none"
  /\ resized = FALSE
  /\ ticks = 0
  /\ \E rows \in 1..MaxSide, cols \in 3..MaxSide :
       \E row \in 0..(rows - 1), col \in 1..(cols - 2) :
         call = [op |-> "idle",
                 grid |-> HorizontalBlinker(rows, cols, row, col)]

SpecBlinker == InitBlinker /\ [][NextFn]_vars

----------------------------------------------------------------------------
(* getGridDimensions and initializeGrid applied to every sampled window,  *)
(* and the slider's handler to every sampled value                        *)

InitDims ==
  /\ window \in Widths \X Heights
  /\ grid = <<>>
  /\ isRunning = FALSE
  /\ generation = 0
  /\ speed = [ms |-> 500, fresh |-> FALSE]
  /\ isDragging = FALSE
  /\ dragMode = "paint"
  /\ view = [ grid |-> <<>>, isRunning |-> FALSE, generation |-> 0,
              speed |-> [ms |-> 500, fresh |-> FALSE],
              isDragging |-> FALSE, dragMode |-> "paint" ]
  /\ timers = {}
  /\ intervalRef = 0
  /\ pressed = "none"
  /\ resized = FALSE
  /\ ticks = 0
  /\ call = idleCall

\* getGridDimensions() in the current window
CallGetGridDimensions ==
  /\ call.op = "none"
  /\ call' = [ op |-> "getGridDimensions",
               result |-> getGridDimensions(window[1], window[2]) ]
  /\ Frame

\* initializeGrid() in the current window: rows and cols are what line 57
\* destructured.
CallInitializeGrid ==
  /\ call.op = "none"
  /\ call' = [ op |-> "initializeGrid",
               rows |-> getGridDimensions(window[1], window[2]).rows,
               cols |-> getGridDimensions(window[1], window[2]).cols,
               result |-> initializeGrid(window) ]
  /\ Frame

\* Lines 59-68 of initializeGrid for given values of rows and cols.
CallInitializeGridOf(rows, cols) ==
  /\ call.op = "none"
  /\ call' = [ op |-> "initializeGridOf", rows |-> rows, cols |-> cols,
               result |-> initializeGridOf(rows, cols) ]
  /\ Frame

\* The slider's onValueChange (line 290) for a given value[0]; result is
\* the speed[0] it stores.
CallOnValueChange(value) ==
  /\ call.op = "none"
  /\ call' = [ op |-> "onValueChange", value |-> value,
               result |-> onValueChange(Current, value).speed.ms ]
  /\ Frame

ReturnDims ==
  /\ call.op # "none"
  /\ call' = idleCall
  /\ Frame

NextDims ==
  \/ CallGetGridDimensions
  \/ CallInitializeGrid
  \/ \E rows \in DimensionValues, cols \in DimensionValues :
        CallInitializeGridOf(rows, cols)
  \/ \E value \in SpeedRequests : CallOnValueChange(value)
  \/ ReturnDims

SpecDims == InitDims /\ [][NextDims]_vars

----------------------------------------------------------------------------
(* The rule of the game, stated from its definition (B3/S23 on a grid with *)
(* hard edges), for the properties below                                    *)

Cells(g) ==
  IF g = <<>> THEN {} ELSE (0..(Len(g) - 1)) \X (0..(Len(g[1]) - 1))

Adjacent(p, q) ==
  /\ p # q
  /\ p[1] - q[1] \in {-1, 0, 1}
  /\ p[2] - q[2] \in {-1, 0, 1}

\* The cells of g adjacent to (row, col).
Around(g, row, col) ==
  { q \in ((row - 1)..(row + 1)) \X ((col - 1)..(col + 1)) :
      q \in Cells(g) /\ Adjacent(<<row, col>>, q) }

\* The number of live cells of g adjacent to (row, col).
LiveAround(g, row, col) ==
  Cardinality({ q \in Around(g, row, col) : Cell(g, q[1], q[2]) })

Conway(g) ==
  [ i \in 1..Len(g) |->
      [ j \in 1..Len(g[i]) |->
          LET n == LiveAround(g, i - 1, j - 1)
          IN IF g[i][j] THEN n \in {2, 3} ELSE n = 3 ] ]

AllDead(g) == \A c \in Cells(g) : ~Cell(g, c[1], c[2])

\* g has the dimensions getGridDimensions computes for window win.
HasDimensionsFor(g, win) ==
  /\ Len(g) = getGridDimensions(win[1], win[2]).rows
  /\ \A i \in 1..Len(g) : Len(g[i]) = getGridDimensions(win[1], win[2]).cols

----------------------------------------------------------------------------
(* Properties of nextGeneration and countNeighbors (specification SpecFn)  *)

\* C1: every cell of nextGeneration(grid) is alive exactly when it was alive
\* with 2 or 3 live neighbours, or dead with exactly 3, the neighbours
\* counted in the grid as it was passed.
C1_NextGenerationRule ==
  call.op = "nextGeneration" => call.result = Conway(call.input)

\* A call in which one cell is born, one dies and one survives.
C1_Witness ==
  /\ call.op = "nextGeneration"
  /\ \E c \in Cells(call.input) :
        ~Cell(call.input, c[1], c[2]) /\ Cell(call.result, c[1], c[2])
  /\ \E c \in Cells(call.input) :
        Cell(call.input, c[1], c[2]) /\ ~Cell(call.result, c[1], c[2])
  /\ \E c \in Cells(call.input) :
        Cell(call.input, c[1], c[2]) /\ Cell(call.result, c[1], c[2])

\* C2: countNeighbors returns the number of live cells among the adjacent
\* positions inside the grid: between 0 and 8, at most the number of such
\* positions, nothing counted across an edge.
C2_CountNeighborsInGrid ==
  call.op = "countNeighbors" =>
    /\ call.result = LiveAround(call.input, call.row, call.col)
    /\ call.result \in 0..8
    /\ call.result <= Cardinality(Around(call.input, call.row, call.col))

\* The corner of a grid of 3 x 3 live cells has 3 live neighbours, not 8.
C2_Witness ==
  /\ call.op = "countNeighbors"
  /\ call.row = 0 /\ call.col = 0
  /\ Len(call.input) = 3 /\ Len(call.input[1]) = 3
  /\ \A c \in Cells(call.input) : Cell(call.input, c[1], c[2])
  /\ call.result = 3

\* C3: nextGeneration leaves its argument as it was and returns a grid with
\* as many rows, and as many cells in each row.
C3_NextGenerationFrame ==
  call.op = "nextGeneration" =>
    /\ call.after = call.input
    /\ Len(call.result) = Len(call.input)
    /\ \A i \in 1..Len(call.input) : Len(call.result[i]) = Len(call.input[i])

\* A call whose result differs from its argument.
C3_Witness ==
  /\ call.op = "nextGeneration"
  /\ call.result # call.input
  /\ call.after = call.input

----------------------------------------------------------------------------
(* Properties of the component (specification Spec) *)

PointerDownStep == \E c \in PointerCells : MouseDown(c[1], c[2])
PointerEnterStep == \E c \in PointerCells : MouseEnter(c[1], c[2])
PointerStep == PointerDownStep \/ PointerEnterStep \/ MouseUp \/ MouseLeave
TickStep == \E t \in timers : Tick(t)
ResizeStep == \E win \in Viewports : Resize(win)

\* C4: a tick is one atomic step: the grid becomes the next generation of
\* the grid just before it and generation grows by exactly 1.  A tick is the
\* only step that changes generation to a value other than 0, and the only
\* step that changes the grid while isRunning stays true; a render shows the
\* grid and the generation of one state.
C4_TickAtomic ==
  [][ /\ ( \/ (generation' # generation /\ generation' # 0)
           \/ (isRunning /\ isRunning' /\ grid' # grid) )
         => (grid' = Conway(grid) /\ generation' = generation + 1)
      /\ view' # view
         => (view'.grid = grid' /\ view'.generation = generation') ]_vars

\* Two ticks were applied, and a cell no pointer event reaches was born.
C4_Witness ==
  /\ isRunning
  /\ generation = 2
  /\ Cell(grid, 1, 1)

\* C5: while isRunning is true a pointerDown, pointerEnter, pointerUp or
\* pointer-leave changes neither the grid nor the generation, and a
\* pointerDown does not start a drag.
C5_PointerIgnoredWhileRunning ==
  [][ (isRunning /\ PointerStep) =>
        /\ grid' = grid
        /\ generation' = generation
        /\ (PointerDownStep => isDragging' = isDragging) ]_vars

\* Running with a drag in progress and live cells: a pointerEnter would edit
\* the grid were it not ignored.
C5_Witness ==
  /\ isRunning
  /\ view.isDragging
  /\ ~AllDead(grid)

\* C6: after a clear request or a resize the grid is all dead with the
\* dimensions computed for the current window, generation is 0 and isRunning
\* is false.
C6_ResetState ==
  [][ (ClearGrid \/ ResizeStep) =>
        /\ AllDead(grid')
        /\ HasDimensionsFor(grid', window')
        /\ generation' = 0
        /\ ~isRunning' ]_vars

\* The state after a resize to the other window, a drag still in progress.
C6_Witness ==
  /\ window # InitialWindow
  /\ resized
  /\ isDragging
  /\ AllDead(grid)
  /\ HasDimensionsFor(grid, window)
  /\ generation = 0
  /\ ~isRunning

\* C7: a pointerDown received while not running and not dragging, on a cell
\* of value v, sets the cell to not v, sets the mode to erase if v was alive
\* and to paint if it was dead, starts a drag, and changes no other cell and
\* not the generation.
C7_PointerDownModeFromCell ==
  [][ \A c \in PointerCells :
        (MouseDown(c[1], c[2]) /\ ~isRunning /\ ~isDragging) =>
          /\ grid' = WriteCell(grid, c[1], c[2], ~Cell(grid, c[1], c[2]))
          /\ dragMode' = (IF Cell(grid, c[1], c[2]) THEN "erase" ELSE "paint")
          /\ isDragging'
          /\ generation' = generation ]_vars

\* C8: in a drag started on a live cell every cell entered ends dead, in a
\* drag started on a dead cell every cell entered ends alive; every cell
\* entered ends with the value (mode = paint).
C8_DragPropagates ==
  [][ \A c \in PointerCells :
        (MouseEnter(c[1], c[2]) /\ ~isRunning /\ isDragging
           /\ pressed \in BOOLEAN) =>
          /\ Cell(grid', c[1], c[2]) = ~pressed
          /\ Cell(grid', c[1], c[2]) = (dragMode = "paint") ]_vars

\* C9: a pointerEnter received while dragging and not running sets the cell
\* to (mode = paint), leaves every other cell and the generation unchanged,
\* and a second pointerEnter on the same cell changes nothing more.
C9_PointerEnterSetsCell ==
  [][ \A c \in PointerCells :
        (MouseEnter(c[1], c[2]) /\ ~isRunning /\ isDragging) =>
          /\ grid' = WriteCell(grid, c[1], c[2], dragMode = "paint")
          /\ generation' = generation
          /\ handleMouseEnter(handleMouseEnter(Current, c[1], c[2]), c[1], c[2])
               = handleMouseEnter(Current, c[1], c[2])
          /\ dragMode' = dragMode /\ isDragging' /\ view' = view ]_vars

\* A drag has painted a cell and the render of it is still to come.
C9_Witness ==
  /\ ~isRunning
  /\ isDragging
  /\ generation = 0
  /\ ~resized
  /\ speed = view.speed
  /\ grid # view.grid
  /\ dragMode = "paint"

\* C10 as claimed: in every state after a resize and before the next
\* run-toggle the grid is the all-dead grid of the new dimensions, generation
\* is 0 and isRunning is false.
C10_AllDeadUntilRunToggle ==
  resized =>
    /\ AllDead(grid)
    /\ HasDimensionsFor(grid, window)
    /\ generation = 0
    /\ ~isRunning

\* C10 as amended: in every state after a resize and before the next
\* run-toggle the grid has the new dimensions, generation is 0, isRunning is
\* false and no timer is live; the grid is changed only by pointer edits, a
\* clear or another resize.
C10_ResetUntilRunToggle ==
  [][ /\ resized =>
           /\ HasDimensionsFor(grid, window)
           /\ generation = 0
           /\ ~isRunning
           /\ timers = {}
      /\ (resized /\ resized' /\ grid' # grid) =>
           (PointerDownStep \/ PointerEnterStep \/ ClearGrid \/ ResizeStep) ]_vars

\* After a resize handled while running, the drag that was in progress has
\* painted a cell of the new grid.
C10_Witness ==
  /\ resized
  /\ window # InitialWindow
  /\ isDragging
  /\ ~AllDead(grid)
  /\ intervalRef # 0

\* C11: in every state where isRunning is false no timer is pending, so no
\* tick is applied there: while isRunning is false the grid is changed only
\* by a pointer edit or a reset (the mount, a clear, a resize) and the
\* generation only by being reset to 0.
C11_NoTickWhileStopped ==
  [][ ~isRunning =>
        /\ timers = {}
        /\ grid' # grid =>
             (PointerDownStep \/ PointerEnterStep \/ Mount \/ ClearGrid
                \/ ResizeStep)
        /\ generation' # generation => generation' = 0
        /\ ~isRunning' => timers' = {} ]_vars

\* Paused by the run-toggle after two ticks: the timer that was started is
\* gone.
C11_Witness ==
  /\ ~isRunning
  /\ generation = 2
  /\ intervalRef # 0
  /\ timers = {}

----------------------------------------------------------------------------
(* Properties of getGridDimensions and initializeGrid (specification      *)
(* SpecDims)                                                               *)

Clamp(x, lo, hi) == IF x < lo THEN lo ELSE IF x > hi THEN hi ELSE x

\* floor(region / CELL_SIZE) for a region given in tenths of a pixel.
CellsIn(region10) ==
  CHOOSE n \in 0..region10 :
    n * CELL_SIZE * 10 <= region10 /\ region10 < (n + 1) * CELL_SIZE * 10

\* C12: getGridDimensions returns rows = clamp(floor(regionHeight / 20), 8,
\* 25) when the window is less than 768 wide and clamp(floor(regionHeight /
\* 20), 8, 40) otherwise, and cols = clamp(floor(regionWidth / 20), 10, 40):
\* rows is in 8..40 (8..25 on mobile) and cols in 10..40.
C12_DimensionsClamped ==
  call.op = "getGridDimensions" =>
    /\ call.result.rows =
         Clamp(CellsIn(containerHeight10(window[1], window[2])), 8,
               IF window[1] < 768 THEN 25 ELSE 40)
    /\ call.result.cols =
         Clamp(CellsIn(containerWidth10(window[1], window[2])), 10, 40)
    /\ call.result.rows \in 8..40
    /\ window[1] < 768 => call.result.rows \in 8..25
    /\ call.result.cols \in 10..40

\* A mobile window tall enough for 36 rows: the limit of 25 applies.
C12_Witness ==
  /\ call.op = "getGridDimensions"
  /\ window = <<767, 2400>>
  /\ CellsIn(containerHeight10(767, 2400)) = 36
  /\ call.result = [rows |-> 25, cols |-> 36]

\* C15: when rows <= 0, cols <= 0, rows > 100 or cols > 100 initializeGrid
\* returns an all-dead grid of exactly 15 rows and 20 columns; otherwise it
\* returns an all-dead grid of exactly rows x cols.
C15_FallbackGrid ==
  call.op = "initializeGridOf" =>
    LET degenerate == \/ call.rows <= 0 \/ call.cols <= 0
                      \/ call.rows > 100 \/ call.cols > 100
        rows == IF degenerate THEN 15 ELSE call.rows
        cols == IF degenerate THEN 20 ELSE call.cols
    IN /\ Len(call.result) = rows
       /\ \A i \in 1..rows : Len(call.result[i]) = cols
       /\ \A i \in 1..rows : \A j \in 1..cols : call.result[i][j] = FALSE

\* The body applied to 101 rows and -1 columns (an array of length -1 cannot
\* be built) has returned the grid of 15 x 20.
C15_Witness ==
  /\ call.op = "initializeGridOf"
  /\ call.rows = 101 /\ call.cols = -1
  /\ Len(call.result) = 15
  /\ Len(call.result[1]) = 20

\* C19: for every window getGridDimensions returns 0 < rows <= 100 and
\* 0 < cols <= 100, so initializeGrid does not take the branch of lines
\* 60-63 and returns the all-dead grid of exactly the computed rows and cols.
C19_FallbackUnreachable ==
  /\ call.op = "getGridDimensions" =>
       /\ 0 < call.result.rows /\ call.result.rows <= 100
       /\ 0 < call.result.cols /\ call.result.cols <= 100
  /\ call.op = "initializeGrid" =>
       /\ 0 < call.rows /\ call.rows <= 100
       /\ 0 < call.cols /\ call.cols <= 100
       /\ call.result = DeadGrid(call.rows, call.cols)
       /\ HasDimensionsFor(call.result, window)

\* initializeGrid in the largest sampled window, where the region holds 240
\* rows: the grid has the 40 x 40 cells getGridDimensions allows.
C19_Witness ==
  /\ call.op = "initializeGrid"
  /\ window = <<4000, 5000>>
  /\ CellsIn(containerHeight10(4000, 5000)) = 240
  /\ Len(call.result) = 40
  /\ Len(call.result[1]) = 40

----------------------------------------------------------------------------
(* The blinker (specification SpecBlinker) *)

\* g's live cells are exactly three horizontally (vertically) adjacent cells
\* with middle cell (row, col).
IsHorizontalBlinker(g, row, col) ==
  col >= 1 /\ col <= Len(g[1]) - 2
    /\ g = HorizontalBlinker(Len(g), Len(g[1]), row, col)

IsVerticalBlinker(g, row, col) ==
  row >= 1 /\ row <= Len(g) - 2
    /\ g = VerticalBlinker(Len(g), Len(g[1]), row, col)

\* C14 as claimed: for every grid whose only live cells are three
\* horizontally adjacent cells of one row, nextGeneration returns the grid
\* whose only live cells are the three vertically adjacent cells of one
\* column centred on the same middle cell.
C14_BlinkerEveryRow ==
  call.op = "nextGeneration" =>
    \A c \in Cells(call.input) :
      IsHorizontalBlinker(call.input, c[1], c[2]) =>
        IsVerticalBlinker(call.result, c[1], c[2])

\* C14 as amended: when the row is neither the first nor the last row of
\* the grid, nextGeneration returns the grid whose only live cells are the
\* three vertically adjacent cells centred on the same middle cell, and
\* nextGeneration of that grid is the original grid.
C14_BlinkerOscillates ==
  call.op = "nextGeneration" =>
    \A c \in Cells(call.input) :
      /\ (IsHorizontalBlinker(call.input, c[1], c[2])
            /\ c[1] >= 1 /\ c[1] <= Len(call.input) - 2) =>
           /\ IsVerticalBlinker(call.result, c[1], c[2])
           /\ nextGeneration(call.result) = call.input
      /\ (IsVerticalBlinker(call.input, c[1], c[2])
            /\ c[2] >= 1 /\ c[2] <= Len(call.input[1]) - 2) =>
           IsHorizontalBlinker(call.result, c[1], c[2])

\* The second application, in a grid of 4 x 5: the column of three cells
\* has become the row of three cells again.
C14_Witness ==
  /\ call.op = "nextGeneration"
  /\ Len(call.input) = 4 /\ Len(call.input[1]) = 5
  /\ IsVerticalBlinker(call.input, 2, 3)
  /\ IsHorizontalBlinker(call.result, 2, 3)

----------------------------------------------------------------------------
(* The period of the game loop (specification SpecClock) *)

\* A step that renders a changed speed while the simulation is and stays
\* running.
SpeedRendered == isRunning /\ isRunning' /\ speed.fresh /\ ~speed'.fresh

\* C16 as claimed: when the speed is changed while running, the wait already
\* pending is neither shortened nor lengthened: the tick that was pending
\* still fires at the instant it was scheduled for.
C16_PendingWaitKept ==
  [][ SpeedRendered =>
        \A t \in timers : \E u \in timers' : u.left = t.left ]_vars

\* C16 as amended: when a changed speed is rendered while running, the
\* pending timer is cancelled and one timer of the new period is started,
\* which fires first one whole new period later, whatever part of the old
\* wait had passed; until that render the pending timer keeps its wait and
\* its period.  Every live timer has the period of the last render.
C16_TimerRestarted ==
  [][ /\ SpeedRendered =>
           timers' = {[id |-> intervalRef', ms |-> speed'.ms,
                       left |-> speed'.ms]}
      /\ (isRunning /\ speed'.fresh /\ ~speed.fresh) => timers' = timers
      /\ \A t \in timers : t.ms = view.speed.ms /\ t.left <= t.ms ]_vars

\* Running with a period of 500 ms, 300 ms of the wait over, the speed
\* changed to 1100 ms and not rendered yet.
C16_Witness ==
  /\ isRunning
  /\ speed = [ms |-> 1100, fresh |-> TRUE]
  /\ timers = {[id |-> intervalRef, ms |-> 500, left |-> 200]}

----------------------------------------------------------------------------
(* The drag (specification Spec) *)

\* C17: the drag mode is fixed for one gesture: from the pointerDown that
\* starts a drag until the pointerUp or pointer-leave that ends it, no step
\* changes the mode.
C17_ModeFixedWhileDragging ==
  [][ (isDragging /\ isDragging') => dragMode' = dragMode ]_vars

\* C18: a pointerUp or a pointer leaving the grid surface ends the drag
\* (isDragging becomes false), and while not dragging a pointerEnter on any
\* cell changes neither the grid nor the generation.
C18_NoEditAfterDragEnds ==
  [][ /\ (MouseUp \/ MouseLeave) => ~isDragging'
      /\ (~isDragging /\ PointerEnterStep) =>
           (grid' = grid /\ generation' = generation) ]_vars

----------------------------------------------------------------------------
(* The clock and the grid (specification Spec) *)

\* g has been initialized and has at least one row and one column.
GridReady(g) == g # <<>> /\ Len(g) >= 1 /\ \A i \in 1..Len(g) : Len(g[i]) >= 1

\* C20: in every state where isRunning is true or a timer is live, and
\* whenever a tick fires, the grid has been initialized and has at least one
\* row and one column; no run-toggle happens before the grid is initialized.
C20_ClockNeedsGrid ==
  [][ /\ (isRunning \/ timers # {}) => GridReady(grid)
      /\ (isRunning' \/ timers' # {}) => GridReady(grid')
      /\ generation' = generation + 1 => (GridReady(grid) /\ GridReady(grid'))
      /\ ToggleRunning => (GridReady(grid) /\ GridReady(view.grid)) ]_vars

\* Started on the grid of the mount, one tick applied.
C20_Witness ==
  /\ isRunning
  /\ timers # {}
  /\ generation = 1
  /\ ~resized
  /\ Len(grid) = 12 /\ Len(grid[1]) = 15

----------------------------------------------------------------------------
(* The shape of the grid (specification Spec) *)

\* g has at least one row and one column, and all its rows the same length.
Rectangular(g) ==
  /\ Len(g) >= 1
  /\ Len(g[1]) >= 1
  /\ \A i \in 1..Len(g) : Len(g[i]) = Len(g[1])

\* C21: once initialized the grid is rectangular with R >= 1 rows of C >= 1
\* cells each; R and C change only in a resize: not in a tick, a pointer
\* event, a run-toggle, a speed change, a clear or a render.
C21_RectangularFixedSize ==
  [][ /\ grid # <<>> => Rectangular(grid)
      /\ grid' # <<>> => Rectangular(grid')
      /\ (grid # <<>> /\ (Len(grid') # Len(grid)
                            \/ Len(grid'[1]) # Len(grid[1]))) => ResizeStep ]_vars

\* In the grid of 13 x 16 of the larger window a drag is in progress and a
\* tick has been applied.
C21_Witness ==
  /\ window = <<375, 900>>
  /\ Len(grid) = 13 /\ Len(grid[1]) = 16
  /\ generation = 1
  /\ isDragging
  /\ Len(view.grid[1]) = 16

\* C22: every pointerDown and pointerEnter carries a coordinate of the grid
\* its update is applied to: 0 <= row < R and 0 <= col < C of the current
\* grid, whatever resizes and clears came before.
C22_PointerCoordinatesValid ==
  [][ \A c \in PointerCells :
        (MouseDown(c[1], c[2]) \/ MouseEnter(c[1], c[2])) =>
          /\ 0 <= c[1] /\ c[1] < Len(grid)
          /\ 0 <= c[2] /\ c[2] < Len(grid[c[1] + 1]) ]_vars

\* Back in the smaller window after a resize to the larger one and another
\* back, a drag still in progress has painted a cell of the grid of 12 x 15.
C22_Witness ==
  /\ window = InitialWindow
  /\ resized
  /\ isDragging
  /\ dragMode = "paint"
  /\ Len(grid) = 12 /\ Len(grid[1]) = 15
  /\ Cell(grid, 0, 1)

----------------------------------------------------------------------------
(* The timer and the generation counter (specification Spec) *)

\* C23: at most one interval timer is live; a timer is live exactly when
\* isRunning is true, and it is the one intervalRef holds, with the period
\* of the last render: no run-toggle, speed change, clear or resize leaves
\* two timers ticking or a timer ticking while paused.
C23_OneTimerWhileRunning ==
  /\ Cardinality(timers) <= 1
  /\ timers # {} <=> isRunning
  /\ \A t \in timers : t.id = intervalRef /\ t.ms = view.speed.ms

\* Running at 100 ms after the speed was changed and rendered, two ticks
\* applied: one timer, of 100 ms.
C23_Witness ==
  /\ isRunning
  /\ generation = 2
  /\ view.speed.ms = 100
  /\ speed.fresh = FALSE
  /\ Cardinality(timers) = 1
  /\ \A t \in timers : t.ms = 100

\* C24: generation is the number of ticks applied since the grid was last
\* replaced (mount, clear or resize), a natural number; pointer events,
\* run-toggles, speed changes and renders leave it unchanged.
C24_GenerationCountsTicks ==
  /\ generation \in Nat
  /\ generation = ticks
  /\ view.generation <= generation

\* Paused after one tick, a cell painted since: generation is still 1.
C24_Witness ==
  /\ ~isRunning
  /\ generation = 1
  /\ ticks = 1
  /\ isDragging
  /\ Cell(grid, 0, 0)

====
